---- MODULE Spec2Model ----
(***************************************************************************)
(* Model of the domain functions of Wastemanagement.py:                    *)
(*   days_to_deadline (lines 116-120), simulate (lines 124-147) and        *)
(*   mcda_score (lines 149-158).                                           *)
(*                                                                         *)
(* The functions are pure; the state of the model is the record of the     *)
(* latest call of each function and of the call before it, so that         *)
(* properties relating two calls are properties of a state.                *)
(*                                                                         *)
(* Python numbers are modelled as exact rationals <<n, d>> in lowest terms *)
(* with d > 0.  An int is a rational with d = 1.  The float literals of    *)
(* the source (0.8, 1.08, 0.02 and the weights) are the decimal fractions  *)
(* they denote; the binary rounding error of IEEE doubles (relative error  *)
(* about 1e-16) is not modelled.                                           *)
(***************************************************************************)
EXTENDS Integers, Sequences, FiniteSets, TLC

VARIABLES simArgs, simResult, simPrev,
          mcdaArgs, mcdaResult, mcdaPrev,
          today, deadlineArg, deadlineOffset, deadlineResult

vars == <<simArgs, simResult, simPrev, mcdaArgs, mcdaResult, mcdaPrev,
          today, deadlineArg, deadlineOffset, deadlineResult>>

simVars == <<simArgs, simResult, simPrev>>
mcdaVars == <<mcdaArgs, mcdaResult, mcdaPrev>>
deadlineVars == <<today, deadlineArg, deadlineOffset, deadlineResult>>

(* No call made yet. *)
NoCall == [status |-> "none"]

-----------------------------------------------------------------------------
(* Python arithmetic on numbers, as exact rationals.                       *)

Abs(i) == IF i < 0 THEN -i ELSE i

RECURSIVE Gcd(_, _)
Gcd(a, b) == IF b = 0 THEN a ELSE Gcd(b, a % b)

(* The rational n/d (d # 0) in lowest terms with a positive denominator. *)
Rat(n, d) ==
    LET g == Gcd(Abs(n), Abs(d))
        s == IF d < 0 THEN -1 ELSE 1
    IN  <<(s * n) \div g, (s * d) \div g>>

R(i) == <<i, 1>>
RAdd(a, b) == Rat(a[1] * b[2] + b[1] * a[2], a[2] * b[2])
RSub(a, b) == Rat(a[1] * b[2] - b[1] * a[2], a[2] * b[2])
RMul(a, b) == Rat(a[1] * b[1], a[2] * b[2])
RDiv(a, b) == Rat(a[1] * b[2], a[2] * b[1])
RLess(a, b) == a[1] * b[2] < b[1] * a[2]
RLeq(a, b) == a[1] * b[2] <= b[1] * a[2]
IsWhole(a) == a[2] = 1

(* Python max(a, b) and min(a, b): the first argument unless the second is *)
(* strictly greater (smaller).                                             *)
PyMax(a, b) == IF RLess(a, b) THEN b ELSE a
PyMin(a, b) == IF RLess(b, a) THEN b ELSE a

(* Python 3 round(x) with one argument: the nearest integer, a tie going   *)
(* to the even neighbour.                                                  *)
PyRound(a) ==
    LET q == a[1] \div a[2]
        r == a[1] % a[2]
    IN  IF 2 * r < a[2] THEN q
        ELSE IF 2 * r > a[2] THEN q + 1
        ELSE IF q % 2 = 0 THEN q ELSE q + 1

-----------------------------------------------------------------------------
(* simulate                                                                *)

compliance_target == 20
base_risk == 20

(* Mutant: the PVC to PET rule tested with "or". *)
material_boost_or(material_from, material_to) ==
    IF material_from = "PVC" \/ material_to = "PET" THEN 12 ELSE 4

material_boost(material_from, material_to) ==
    IF material_from = "PVC" /\ material_to = "PET" THEN 12 ELSE 4

(* Mutant: the clamp at 100 left out. *)
compliance_score_unclamped(material_from, material_to, recycled_pct) ==
    RAdd(R(60 + material_boost(material_from, material_to)),
         PyMax(R(0), R(recycled_pct - compliance_target)))[1]

compliance_score(material_from, material_to, recycled_pct) ==
    PyMin(R(100),
          RAdd(R(60 + material_boost(material_from, material_to)),
               PyMax(R(0), R(recycled_pct - compliance_target))))[1]

(* Mutant: the PET surcharge applied to PVC. *)
material_cost_factor_pvc(material_to) ==
    IF material_to = "PVC" THEN Rat(108, 100) ELSE R(1)

material_cost_factor(material_to) ==
    IF material_to = "PET" THEN Rat(108, 100) ELSE R(1)

traceability_cost(traceability) ==
    IF traceability THEN Rat(2, 100) ELSE R(0)

new_cost(material_to, traceability, base_cost_per_unit) ==
    RMul(RMul(R(base_cost_per_unit), material_cost_factor(material_to)),
         RAdd(R(1), traceability_cost(traceability)))

(* Defined for base_cost_per_unit # 0 only; Python raises                  *)
(* ZeroDivisionError otherwise (see simulate).                             *)
cost_delta_pct(material_to, traceability, base_cost_per_unit) ==
    PyRound(RMul(RDiv(RSub(new_cost(material_to, traceability, base_cost_per_unit),
                           R(base_cost_per_unit)),
                      R(base_cost_per_unit)),
                 R(100)))

(* Mutant: the floor at 0 left out. *)
lead_risk_unfloored(lead_time_days) == R((lead_time_days - 10) * 2)

lead_risk(lead_time_days) == PyMax(R(0), R((lead_time_days - 10) * 2))

recycled_risk(recycled_pct) ==
    PyMax(R(0), RMul(R(recycled_pct - compliance_target), Rat(8, 10)))

availability_risk(recycled_pct, lead_time_days) ==
    PyMin(R(95), RAdd(RAdd(R(base_risk), lead_risk(lead_time_days)),
                      recycled_risk(recycled_pct)))

(* Mutant: a shortfall clamped at 0. *)
epr_gap_reduction_clamped(recycled_pct) ==
    PyRound(PyMax(R(0), R((recycled_pct - compliance_target) * 5)))

epr_gap_reduction(recycled_pct) ==
    PyRound(R((recycled_pct - compliance_target) * 5))

(* The value of a call: the dict returned, or the exception raised.        *)
(* complianceScore, costDeltaPct and eprGapReduction are Python ints;      *)
(* availabilityRisk is the number computed at line 138, kept as a          *)
(* rational because it is returned without rounding.                       *)
simulate(material_from, material_to, recycled_pct, lead_time_days, traceability, base_cost_per_unit) ==
    IF base_cost_per_unit = 0
    THEN [status |-> "ZeroDivisionError"]
    ELSE [status |-> "ok",
          complianceScore |->
              compliance_score(material_from, material_to, recycled_pct),
          costDeltaPct |->
              cost_delta_pct(material_to, traceability, base_cost_per_unit),
          availabilityRisk |->
              availability_risk(recycled_pct, lead_time_days),
          eprGapReduction |-> epr_gap_reduction(recycled_pct)]

(* The call of simulate with the record a of arguments. *)
SimulateArgs(a) ==
    simulate(a.material_from, a.material_to, a.recycled_pct,
             a.lead_time_days, a.traceability, a.base_cost_per_unit)

-----------------------------------------------------------------------------
(* Inputs of simulate.                                                     *)

Materials == {"PVC", "PET", "PP"}

MaxPct == 70
MaxLead == 40
MaxBase == 3
DefaultBaseCost == 10

(* Sample values around the thresholds of the code: the recycled-content   *)
(* target 20, the lead time 10 free of risk, the clamps at 100 and 95.     *)
PctValues == {-5, 20, 21, 25, 48, MaxPct}
LeadValues == {-1, 10, 11, MaxLead}
BaseValues == {0, 1, DefaultBaseCost, MaxBase}

SimInputs ==
    [material_from : Materials, material_to : Materials,
     recycled_pct : PctValues, lead_time_days : LeadValues,
     traceability : BOOLEAN, base_cost_per_unit : BaseValues]

(* A caller invokes simulate with the arguments a; the call before it is   *)
(* remembered.                                                             *)
CallSimulate(a) ==
    /\ simPrev' = IF simResult = NoCall THEN NoCall
                  ELSE [status |-> "called", args |-> simArgs, result |-> simResult]
    /\ simArgs' = a
    /\ simResult' = SimulateArgs(a)
    /\ UNCHANGED <<mcdaVars, deadlineVars>>

(* The call with the arguments as they are. *)
Simulate == CallSimulate(simArgs)

(* The call repeated with one argument changed. *)
SimulateMaterialFrom ==
    \E m \in Materials : CallSimulate([simArgs EXCEPT !.material_from = m])
SimulateMaterialTo ==
    \E m \in Materials : CallSimulate([simArgs EXCEPT !.material_to = m])
SimulateRecycledPct ==
    \E p \in PctValues : CallSimulate([simArgs EXCEPT !.recycled_pct = p])
SimulateLeadTime ==
    \E l \in LeadValues : CallSimulate([simArgs EXCEPT !.lead_time_days = l])
SimulateTraceability ==
    \E t \in BOOLEAN : CallSimulate([simArgs EXCEPT !.traceability = t])
SimulateBaseCost ==
    \E b \in BaseValues : CallSimulate([simArgs EXCEPT !.base_cost_per_unit = b])

SimInit ==
    /\ simArgs \in SimInputs
    /\ simResult = NoCall
    /\ simPrev = NoCall
    /\ mcdaArgs = NoCall /\ mcdaResult = NoCall /\ mcdaPrev = NoCall
    /\ today = NoCall /\ deadlineArg = NoCall
    /\ deadlineOffset = NoCall /\ deadlineResult = NoCall

SimNext ==
    \/ Simulate
    \/ SimulateMaterialFrom
    \/ SimulateMaterialTo
    \/ SimulateRecycledPct
    \/ SimulateLeadTime
    \/ SimulateTraceability
    \/ SimulateBaseCost

SimSpec == SimInit /\ [][SimNext]_vars

-----------------------------------------------------------------------------
(* days_to_deadline                                                        *)
(*                                                                         *)
(* A date is a record [year, month, day] of the proleptic Gregorian        *)
(* calendar; a string is a sequence of one-character strings.  today is   *)
(* the date that date.today() returns during the call.                     *)

IsLeap(y) == (y % 4 = 0) /\ ((y % 100 # 0) \/ (y % 400 = 0))

DaysInMonth(y, m) ==
    IF m = 2 THEN (IF IsLeap(y) THEN 29 ELSE 28)
    ELSE IF m \in {4, 6, 9, 11} THEN 30 ELSE 31

(* Days of year y before the first of month m. *)
DaysBeforeMonth(y, m) ==
    LET F[k \in 1..12] == IF k = 1 THEN 0 ELSE F[k - 1] + DaysInMonth(y, k - 1)
    IN  F[m]

(* Days before January 1st of year y. *)
DaysBeforeYear(y) ==
    LET p == y - 1
    IN  p * 365 + (p \div 4) - (p \div 100) + (p \div 400)

(* date.toordinal(): January 1st of year 1 is day 1. *)
ToOrdinal(d) == DaysBeforeYear(d.year) + DaysBeforeMonth(d.year, d.month) + d.day

DigitChars == <<"0", "1", "2", "3", "4", "5", "6", "7", "8", "9">>
DigitSet == {DigitChars[i] : i \in 1..10}
DigitVal(c) == (CHOOSE i \in 1..10 : DigitChars[i] = c) - 1

IsDigits(t) == \A i \in 1..Len(t) : t[i] \in DigitSet

RECURSIVE Num(_)
Num(t) == IF Len(t) = 0 THEN 0
          ELSE 10 * Num(SubSeq(t, 1, Len(t) - 1)) + DigitVal(t[Len(t)])

(* strptime(deadline_str, '%Y-%m-%d').date(): the whole string must match  *)
(* \d{4} - (1[0-2]|0[1-9]|[1-9]) - (3[01]|[12]\d|0[1-9]|[1-9]| [1-9]) and   *)
(* denote a date of the calendar; ValueError otherwise.                    *)
strptime(s) ==
    LET dashes == {i \in 1..Len(s) : s[i] = "-"}
        p1 == CHOOSE i \in dashes : \A j \in dashes : i <= j
        p2 == CHOOSE i \in dashes : \A j \in dashes : i >= j
        Y == SubSeq(s, 1, p1 - 1)
        M == SubSeq(s, p1 + 1, p2 - 1)
        D == SubSeq(s, p2 + 1, Len(s))
        DD == IF D[1] = " " THEN SubSeq(D, 2, 2) ELSE D
        fieldsOk ==
            /\ Len(Y) = 4 /\ IsDigits(Y)
            /\ Len(M) \in {1, 2} /\ IsDigits(M) /\ Num(M) \in 1..12
            /\ Len(D) \in {1, 2}
            /\ Len(DD) >= 1 /\ IsDigits(DD) /\ Num(DD) \in 1..31
            /\ D[1] = " " => DD[1] # "0"
    IN  IF Cardinality(dashes) # 2 THEN [status |-> "ValueError"]
        ELSE IF ~fieldsOk THEN [status |-> "ValueError"]
        ELSE IF Num(Y) < 1 \/ Num(DD) > DaysInMonth(Num(Y), Num(M))
             THEN [status |-> "ValueError"]
        ELSE [status |-> "ok",
              date |-> [year |-> Num(Y), month |-> Num(M), day |-> Num(DD)]]

(* Mutant: a string that does not parse counted as a deadline that has     *)
(* passed.                                                                 *)
days_to_deadline_swallow(deadline_str, now) ==
    LET deadline == strptime(deadline_str)
    IN  IF deadline.status # "ok" THEN [status |-> "ok", days |-> 0]
        ELSE LET days == ToOrdinal(deadline.date) - ToOrdinal(now)
             IN  [status |-> "ok", days |-> IF 0 >= days THEN 0 ELSE days]

(* Mutant: the floor at 0 left out. *)
days_to_deadline_unfloored(deadline_str, now) ==
    LET deadline == strptime(deadline_str)
    IN  IF deadline.status # "ok" THEN deadline
        ELSE [status |-> "ok",
              days |-> ToOrdinal(deadline.date) - ToOrdinal(now)]

(* days_to_deadline(deadline_str) called when date.today() is now. *)
days_to_deadline(deadline_str, now) ==
    LET deadline == strptime(deadline_str)
    IN  IF deadline.status # "ok" THEN deadline
        ELSE LET days == ToOrdinal(deadline.date) - ToOrdinal(now)
             IN  [status |-> "ok", days |-> IF 0 >= days THEN 0 ELSE days]

-----------------------------------------------------------------------------
(* The calendar of the callers of days_to_deadline: the clock that         *)
(* date.today() reads, and deadlines written as YYYY-MM-DD strings.        *)

NextDay(d) ==
    IF d.day < DaysInMonth(d.year, d.month) THEN [d EXCEPT !.day = d.day + 1]
    ELSE IF d.month < 12 THEN [d EXCEPT !.month = d.month + 1, !.day = 1]
    ELSE [year |-> d.year + 1, month |-> 1, day |-> 1]

PrevDay(d) ==
    IF d.day > 1 THEN [d EXCEPT !.day = d.day - 1]
    ELSE IF d.month > 1
         THEN [d EXCEPT !.month = d.month - 1,
                        !.day = DaysInMonth(d.year, d.month - 1)]
    ELSE [year |-> d.year - 1, month |-> 12, day |-> 31]

(* The date n days after d (before d, for a negative n), counted day by day. *)
StepDays(d, n) ==
    LET F[k \in 0..Abs(n)] ==
            IF k = 0 THEN d
            ELSE IF n > 0 THEN NextDay(F[k - 1]) ELSE PrevDay(F[k - 1])
    IN  IF d.day >= 1 THEN F[Abs(n)] ELSE d

(* The same, a month of steps at a time. *)
AddDays(d, n) ==
    LET sign == IF n < 0 THEN -1 ELSE 1
        q == Abs(n) \div 30
        G[j \in 0..q] ==
            IF j = 0 THEN d
            ELSE LET g == G[j - 1] IN IF g.day >= 1 THEN StepDays(g, sign * 30) ELSE g
    IN  StepDays(G[q], sign * (Abs(n) % 30))

Digits(n, width) ==
    [i \in 1..width |-> DigitChars[((n \div (10 ^ (width - i))) % 10) + 1]]

(* The string YYYY-MM-DD of a date, as in regulatory_feed. *)
FormatDate(d) ==
    Digits(d.year, 4) \o <<"-">> \o Digits(d.month, 2) \o <<"-">> \o Digits(d.day, 2)

(* The same date written without the leading zeros, or with the day       *)
(* padded by a space.                                                      *)
FormatLoose(d, style) ==
    LET short(n) == IF n < 10 THEN Digits(n, 1) ELSE Digits(n, 2)
        spaced(n) == IF n < 10 THEN <<" ">> \o Digits(n, 1) ELSE Digits(n, 2)
    IN  IF style = "unpadded"
        THEN Digits(d.year, 4) \o <<"-">> \o short(d.month) \o <<"-">> \o short(d.day)
        ELSE Digits(d.year, 4) \o <<"-">> \o Digits(d.month, 2) \o <<"-">> \o spaced(d.day)

FeedYear == 2026
MaxYearSpan == 2
MaxOffset == 60

(* The days on which a call is made. *)
Days ==
    {d \in [year : FeedYear..(FeedYear + MaxYearSpan), month : 1..12, day : 1..31] :
        d.day <= DaysInMonth(d.year, d.month)}

Offsets == {-MaxOffset, -1, 0, 1, 31, MaxOffset}

LooseOffsets == {-1, 0, 31}
LooseStyles == {"unpadded", "spaced"}

(* Strings that are no date in YYYY-MM-DD form. *)
Malformed ==
    { <<"2", "0", "2", "6", "-", "0", "2", "-", "3", "0">>,
      <<"2", "0", "2", "6", "-", "1", "3", "-", "0", "1">>,
      <<"3", "1", "-", "0", "3", "-", "2", "0", "2", "6">>,
      <<"2", "0", "2", "6", "/", "0", "3", "/", "3", "1">>,
      <<>> }

(* A call with the deadline that lies off days after today. *)
DaysToDeadline ==
    \E off \in Offsets :
        /\ deadlineArg' = FormatDate(AddDays(today, off))
        /\ deadlineOffset' = [status |-> "days", days |-> off]
        /\ deadlineResult' = days_to_deadline(deadlineArg', today)
        /\ UNCHANGED <<today, simVars, mcdaVars>>

(* A call with a string that is no date. *)
DaysToDeadlineMalformed ==
    \E s \in Malformed :
        /\ deadlineArg' = s
        /\ deadlineOffset' = NoCall
        /\ deadlineResult' = days_to_deadline(s, today)
        /\ UNCHANGED <<today, simVars, mcdaVars>>

(* A call with a date that is not written in the YYYY-MM-DD form. *)
DaysToDeadlineLoose ==
    \E off \in LooseOffsets, style \in LooseStyles :
        /\ deadlineArg' = FormatLoose(AddDays(today, off), style)
        /\ deadlineOffset' = [status |-> "loose", days |-> off]
        /\ deadlineResult' = days_to_deadline(deadlineArg', today)
        /\ UNCHANGED <<today, simVars, mcdaVars>>

DeadlineInit ==
    /\ today \in Days
    /\ deadlineArg = NoCall /\ deadlineOffset = NoCall /\ deadlineResult = NoCall
    /\ simArgs = NoCall /\ simResult = NoCall /\ simPrev = NoCall
    /\ mcdaArgs = NoCall /\ mcdaResult = NoCall /\ mcdaPrev = NoCall

DeadlineNext ==
    \/ DaysToDeadline
    \/ DaysToDeadlineMalformed
    \/ DaysToDeadlineLoose

DeadlineSpec == DeadlineInit /\ [][DeadlineNext]_vars

(* C7: for a well-formed deadline, days_to_deadline returns 0 when the     *)
(* deadline is strictly in the past and D when it is D >= 0 days in the    *)
(* future; the result is never negative.                                   *)
C7_DaysToDeadline ==
    deadlineOffset.status = "days"
    => /\ deadlineResult.status = "ok"
       /\ deadlineResult.days >= 0
       /\ deadlineOffset.days < 0 => deadlineResult.days = 0
       /\ deadlineOffset.days >= 0 => deadlineResult.days = deadlineOffset.days

(* A deadline ahead across the leap day of 2028. *)
C7_Witness ==
    /\ deadlineOffset.status = "days" /\ deadlineOffset.days = 31
    /\ today = [year |-> 2028, month |-> 2, day |-> 28]
    /\ deadlineArg = FormatDate([year |-> 2028, month |-> 3, day |-> 30])
    /\ deadlineResult.days = 31

(* A deadline in the past, across the turn of the year. *)
C7_WitnessPast ==
    /\ deadlineOffset.status = "days" /\ deadlineOffset.days = -1
    /\ today = [year |-> 2027, month |-> 1, day |-> 1]
    /\ deadlineArg = FormatDate([year |-> 2026, month |-> 12, day |-> 31])
    /\ deadlineResult.days = 0

-----------------------------------------------------------------------------
(* mcda_score                                                              *)
(*                                                                         *)
(* A dict is a function from its keys.  metrics and weights hold numbers:  *)
(* a metric is an int or, as the availability of render_ecodesign, a       *)
(* float; both are rationals here, as every number is.                     *)

Criteria == {"compliance", "cost", "availability", "recyclability", "traceability"}

(* Mutant: cost passed through like the other criteria. *)
normalized_cost_not_inverted(metrics) ==
    [k \in Criteria |-> metrics[k]]

(* Mutant: cost inverted about 0 instead of 100. *)
normalized_cost_negated(metrics) ==
    [k \in Criteria |-> IF k = "cost" THEN RSub(R(0), metrics[k]) ELSE metrics[k]]

(* The dict built at lines 151-157. *)
normalized(metrics) ==
    [k \in Criteria |-> IF k = "cost" THEN RSub(R(100), metrics[k]) ELSE metrics[k]]

(* sum(normalized[k] * weights[k] for k in keys) *)
RECURSIVE WeightedSum(_, _, _)
WeightedSum(norm, weights, keys) ==
    IF keys = {} THEN R(0)
    ELSE LET k == CHOOSE x \in keys : TRUE
         IN  RAdd(RMul(norm[k], weights[k]),
                  WeightedSum(norm, weights, keys \ {k}))

(* Mutant: the sum truncated instead of rounded. *)
mcda_score_floor(metrics, weights) ==
    IF ~(Criteria \subseteq DOMAIN metrics) THEN [status |-> "KeyError"]
    ELSE IF ~(DOMAIN weights \subseteq Criteria) THEN [status |-> "KeyError"]
    ELSE LET t == WeightedSum(normalized(metrics), weights, DOMAIN weights)
         IN  [status |-> "ok", score |-> t[1] \div t[2]]

(* The value of a call: the score returned, or the KeyError raised when    *)
(* metrics lacks a criterion or weights holds a key that is no criterion.  *)
mcda_score(metrics, weights) ==
    IF ~(Criteria \subseteq DOMAIN metrics) THEN [status |-> "KeyError"]
    ELSE IF ~(DOMAIN weights \subseteq Criteria) THEN [status |-> "KeyError"]
    ELSE [status |-> "ok",
          score |-> PyRound(WeightedSum(normalized(metrics), weights, DOMAIN weights))]

-----------------------------------------------------------------------------
(* Inputs of mcda_score.                                                   *)

MidMetric == 55
MaxMetric == 100
WeightDen == 4
MaxWeightNum == 2

MetricValues == {0, MidMetric, MaxMetric}
MetricBundles == [Criteria -> MetricValues]

(* The weights of render_ecodesign. *)
EcoDesignWeights ==
    [k \in Criteria |->
        CASE k = "compliance" -> Rat(30, 100)
          [] k = "cost" -> Rat(20, 100)
          [] k = "availability" -> Rat(15, 100)
          [] k = "recyclability" -> Rat(20, 100)
          [] k = "traceability" -> Rat(15, 100)]

(* All the weight on one criterion. *)
OneHot(c) == [k \in Criteria |-> IF k = c THEN R(1) ELSE R(0)]

(* The same weight on every criterion. *)
Uniform(w) == [k \in Criteria |-> w]

WeightValues == {Rat(n, WeightDen) : n \in 0..MaxWeightNum} \cup {Rat(-1, WeightDen)}

WeightBundles ==
    {EcoDesignWeights, Uniform(Rat(1, 5)), Uniform(Rat(1, WeightDen))}
        \cup {OneHot(c) : c \in Criteria}

(* A dict of Python ints, as numbers. *)
IntMetrics(m) == [k \in DOMAIN m |-> R(m[k])]

(* A caller invokes mcda_score(m, w) with int metrics; the call before it  *)
(* is remembered.                                                          *)
CallMcdaScore(m, w) ==
    /\ mcdaPrev' = IF mcdaResult = NoCall THEN NoCall
                   ELSE [status |-> "called", args |-> mcdaArgs, result |-> mcdaResult]
    /\ mcdaArgs' = [metrics |-> m, weights |-> w]
    /\ mcdaResult' = mcda_score(IntMetrics(m), w)
    /\ UNCHANGED <<simVars, deadlineVars>>

(* The first call, with the bundles as they are. *)
McdaScore ==
    /\ mcdaResult = NoCall
    /\ CallMcdaScore(mcdaArgs.metrics, mcdaArgs.weights)

(* A second call, with one weight replaced. *)
McdaScoreWeight ==
    /\ mcdaResult # NoCall /\ mcdaPrev = NoCall
    /\ \E k \in Criteria, w \in WeightValues :
          CallMcdaScore(mcdaArgs.metrics, [mcdaArgs.weights EXCEPT ![k] = w])

(* A second call, with one weight doubled. *)
McdaScoreDoubledWeight ==
    /\ mcdaResult # NoCall /\ mcdaPrev = NoCall
    /\ \E k \in Criteria :
          CallMcdaScore(mcdaArgs.metrics,
                        [mcdaArgs.weights EXCEPT ![k] = RMul(R(2), mcdaArgs.weights[k])])

(* A second call, with one criterion missing from the weights. *)
McdaScoreMissingWeight ==
    /\ mcdaResult # NoCall /\ mcdaPrev = NoCall
    /\ \E c \in Criteria :
          CallMcdaScore(mcdaArgs.metrics,
                        [k \in Criteria \ {c} |-> mcdaArgs.weights[k]])

McdaInit ==
    /\ mcdaArgs \in [metrics : MetricBundles, weights : WeightBundles]
    /\ mcdaResult = NoCall
    /\ mcdaPrev = NoCall
    /\ simArgs = NoCall /\ simResult = NoCall /\ simPrev = NoCall
    /\ today = NoCall /\ deadlineArg = NoCall
    /\ deadlineOffset = NoCall /\ deadlineResult = NoCall

McdaNext ==
    \/ McdaScore
    \/ McdaScoreWeight
    \/ McdaScoreDoubledWeight
    \/ McdaScoreMissingWeight

McdaSpec == McdaInit /\ [][McdaNext]_vars

-----------------------------------------------------------------------------
(* render_ecodesign                                                        *)

(* The values the number inputs start with. *)
DefaultRecycledPct == 22
DefaultLeadTime == 14

(* The baseline option. *)
optionA ==
    [k \in Criteria |->
        CASE k = "compliance" -> 72
          [] k = "cost" -> 40
          [] k = "availability" -> 70
          [] k = "recyclability" -> 55
          [] k = "traceability" -> 50]

(* Mutant: the recyclability of the option left without its cap of 100. *)
optionB_recyclability_uncapped(sim, recycled_pct, traceability) ==
    [k \in Criteria |->
        CASE k = "compliance" -> R(sim.complianceScore)
          [] k = "cost" -> PyMin(R(100), R(50 + sim.costDeltaPct))
          [] k = "availability" -> RSub(R(100), sim.availabilityRisk)
          [] k = "recyclability" -> R(60 + (recycled_pct - 20) * 2)
          [] k = "traceability" -> IF traceability THEN R(85) ELSE R(60)]

(* The simulated option, from the result sim of simulate. *)
optionB(sim, recycled_pct, traceability) ==
    [k \in Criteria |->
        CASE k = "compliance" -> R(sim.complianceScore)
          [] k = "cost" -> PyMin(R(100), R(50 + sim.costDeltaPct))
          [] k = "availability" -> RSub(R(100), sim.availabilityRisk)
          [] k = "recyclability" -> PyMin(R(100), R(60 + (recycled_pct - 20) * 2))
          [] k = "traceability" -> IF traceability THEN R(85) ELSE R(60)]

(* What the two number inputs can hold: every percentage, and values       *)
(* outside the percentages and below zero, which the inputs do not refuse. *)
EcoPctValues == (0..100) \cup {-30, 120}
EcoLeadValues == {-1, 0, DefaultLeadTime, MaxLead, 200}

(* One run of the page, whose names are all local and start afresh: the    *)
(* inputs are read, simulate is called, and the two options are scored,    *)
(* option A first.                                                         *)
render_ecodesign ==
    /\ mcdaResult = NoCall
    /\ \E material_from \in Materials, material_to \in Materials,
          recycled_pct \in EcoPctValues, lead_time_days \in EcoLeadValues,
          traceability \in BOOLEAN :
           LET a == [material_from |-> material_from, material_to |-> material_to,
                     recycled_pct |-> recycled_pct, lead_time_days |-> lead_time_days,
                     traceability |-> traceability,
                     base_cost_per_unit |-> DefaultBaseCost]
               sim == SimulateArgs(a)
               weights == EcoDesignWeights
               B == optionB(sim, recycled_pct, traceability)
           IN  /\ simArgs' = a
               /\ simResult' = sim
               /\ mcdaPrev' = [status |-> "called",
                               args |-> [metrics |-> optionA, weights |-> weights],
                               result |-> mcda_score(IntMetrics(optionA), weights)]
               /\ mcdaArgs' = [metrics |-> B, weights |-> weights]
               /\ mcdaResult' = mcda_score(B, weights)
               /\ UNCHANGED <<simPrev, deadlineVars>>

EcoInit ==
    /\ simArgs = NoCall /\ simResult = NoCall /\ simPrev = NoCall
    /\ mcdaArgs = NoCall /\ mcdaResult = NoCall /\ mcdaPrev = NoCall
    /\ today = NoCall /\ deadlineArg = NoCall
    /\ deadlineOffset = NoCall /\ deadlineResult = NoCall

EcoNext == render_ecodesign

EcoSpec == EcoInit /\ [][EcoNext]_vars

-----------------------------------------------------------------------------
(* Properties of simulate.                                                 *)

SimOk == simResult.status = "ok"
SimPrevOk == simPrev.status = "called" /\ simPrev.result.status = "ok"

IntMin(a, b) == IF a <= b THEN a ELSE b
IntMax(a, b) == IF a >= b THEN a ELSE b

ExpectedBoost(a) ==
    IF <<a.material_from, a.material_to>> = <<"PVC", "PET">> THEN 12 ELSE 4

ExpectedCompliance(a) ==
    IntMin(100, 60 + ExpectedBoost(a) + IntMax(0, a.recycled_pct - 20))

(* C1: complianceScore = min(100, 60 + boost + max(0, recycled_pct - 20))  *)
(* with boost 12 exactly for PVC to PET and 4 for every other pair; calls  *)
(* that agree on the materials and on recycled_pct return the same         *)
(* complianceScore whatever the lead time, traceability and base cost.     *)
C1_ComplianceFormula ==
    /\ SimOk => simResult.complianceScore = ExpectedCompliance(simArgs)
    /\ (SimOk /\ SimPrevOk
          /\ simPrev.args.material_from = simArgs.material_from
          /\ simPrev.args.material_to = simArgs.material_to
          /\ simPrev.args.recycled_pct = simArgs.recycled_pct)
       => simPrev.result.complianceScore = simResult.complianceScore

C1_Witness ==
    /\ SimOk /\ SimPrevOk
    /\ simArgs.material_from = "PVC" /\ simArgs.material_to = "PET"
    /\ simArgs.recycled_pct = 20 /\ simResult.complianceScore = 72
    /\ simPrev.args.material_to = "PP" /\ simPrev.result.complianceScore = 64

(* C2: for fixed materials complianceScore is non-decreasing in            *)
(* recycled_pct, and it never exceeds 100.                                 *)
C2_ComplianceMonotone ==
    /\ SimOk => simResult.complianceScore <= 100
    /\ (SimOk /\ SimPrevOk
          /\ simPrev.args.material_from = simArgs.material_from
          /\ simPrev.args.material_to = simArgs.material_to)
       => /\ simPrev.args.recycled_pct <= simArgs.recycled_pct
             => simPrev.result.complianceScore <= simResult.complianceScore
          /\ simArgs.recycled_pct <= simPrev.args.recycled_pct
             => simResult.complianceScore <= simPrev.result.complianceScore

C2_Witness ==
    /\ SimOk /\ SimPrevOk
    /\ simPrev.args.material_from = simArgs.material_from
    /\ simPrev.args.material_to = simArgs.material_to
    /\ simPrev.args.recycled_pct < simArgs.recycled_pct
    /\ simArgs.recycled_pct = MaxPct
    /\ simPrev.result.complianceScore < 100
    /\ simResult.complianceScore = 100

(* Ten times the availability risk of the claim, in integers. *)
ExpectedRiskTenths(a) ==
    IntMin(950, 200 + IntMax(0, (a.lead_time_days - 10) * 20)
                    + IntMax(0, (a.recycled_pct - 20) * 8))

(* C3: availabilityRisk = min(95, 20 + max(0, (lead_time_days - 10) * 2)   *)
(* + max(0, (recycled_pct - 20) * 0.8)), hence never above 95.             *)
C3_AvailabilityFormula ==
    SimOk =>
        /\ simResult.availabilityRisk[1] * 10
             = ExpectedRiskTenths(simArgs) * simResult.availabilityRisk[2]
        /\ RLeq(simResult.availabilityRisk, R(95))

C3_Witness ==
    /\ SimOk
    /\ simArgs.lead_time_days = MaxLead /\ simArgs.recycled_pct = MaxPct
    /\ simResult.availabilityRisk = R(95)
    /\ SimPrevOk /\ simPrev.args.recycled_pct = 25
    /\ RLess(simPrev.result.availabilityRisk, R(95))

(* C4: availabilityRisk is an integer in 0..95, never a fractional value.  *)
C4_AvailabilityIsInteger ==
    SimOk =>
        /\ IsWhole(simResult.availabilityRisk)
        /\ RLeq(R(0), simResult.availabilityRisk)
        /\ RLeq(simResult.availabilityRisk, R(95))

ExpectedCostDelta(a) ==
    IF a.material_to = "PET"
    THEN (IF a.traceability THEN 10 ELSE 8)
    ELSE (IF a.traceability THEN 2 ELSE 0)

(* C5: for a positive base cost costDeltaPct is 10 for PET with            *)
(* traceability, 8 for PET without, 2 for another material with            *)
(* traceability and 0 otherwise; it is never negative and is the same for  *)
(* every base cost, material_from, recycled_pct and lead time.             *)
C5_CostDelta ==
    /\ (SimOk /\ simArgs.base_cost_per_unit > 0)
       => /\ simResult.costDeltaPct = ExpectedCostDelta(simArgs)
          /\ simResult.costDeltaPct >= 0
    /\ (SimOk /\ SimPrevOk
          /\ simArgs.base_cost_per_unit > 0
          /\ simPrev.args.base_cost_per_unit > 0
          /\ simPrev.args.material_to = simArgs.material_to
          /\ simPrev.args.traceability = simArgs.traceability)
       => simPrev.result.costDeltaPct = simResult.costDeltaPct

C5_Witness ==
    /\ SimOk /\ SimPrevOk
    /\ simArgs.material_to = "PET" /\ simArgs.traceability
    /\ simArgs.base_cost_per_unit = MaxBase
    /\ simPrev.args.base_cost_per_unit = DefaultBaseCost
    /\ simResult.costDeltaPct = 10 /\ simPrev.result.costDeltaPct = 10

(* C6: eprGapReduction = (recycled_pct - 20) * 5: zero at 20, negative     *)
(* below 20, positive above 20, and the same for every choice of the       *)
(* other arguments.                                                        *)
C6_EprGapReduction ==
    /\ SimOk
       => /\ simResult.eprGapReduction = (simArgs.recycled_pct - 20) * 5
          /\ simArgs.recycled_pct = 20 => simResult.eprGapReduction = 0
          /\ simArgs.recycled_pct < 20 => simResult.eprGapReduction < 0
          /\ simArgs.recycled_pct > 20 => simResult.eprGapReduction > 0
    /\ (SimOk /\ SimPrevOk /\ simPrev.args.recycled_pct = simArgs.recycled_pct)
       => simPrev.result.eprGapReduction = simResult.eprGapReduction

C6_Witness ==
    /\ SimOk /\ SimPrevOk
    /\ simArgs.recycled_pct < 20 /\ simResult.eprGapReduction < 0
    /\ simPrev.args.recycled_pct > 20 /\ simPrev.result.eprGapReduction > 0

-----------------------------------------------------------------------------
(* Properties of mcda_score.                                               *)

McdaOk == mcdaResult.status = "ok"
McdaPrevOk == mcdaPrev.status = "called" /\ mcdaPrev.result.status = "ok"

(* The normalized value of criterion k, as the claims state it. *)
ExpectedNormalized(m, k) == IF k = "cost" THEN 100 - m[k] ELSE m[k]

(* compliance*w + (100 - cost)*w + availability*w + recyclability*w +      *)
(* traceability*w                                                          *)
ExpectedSum(m, w) ==
    RAdd(RMul(R(m["compliance"]), w["compliance"]),
    RAdd(RMul(R(100 - m["cost"]), w["cost"]),
    RAdd(RMul(R(m["availability"]), w["availability"]),
    RAdd(RMul(R(m["recyclability"]), w["recyclability"]),
         RMul(R(m["traceability"]), w["traceability"])))))

SumOfWeights(w) ==
    RAdd(w["compliance"], RAdd(w["cost"], RAdd(w["availability"],
         RAdd(w["recyclability"], w["traceability"]))))

(* The integer i is a nearest integer of the rational a. *)
IsRounding(i, a) == 2 * Abs(i * a[2] - a[1]) <= a[2]

PerfectMetrics ==
    [k \in Criteria |-> IF k = "cost" THEN 0 ELSE 100]

(* C8: with exactly the five criteria in both bundles the score is the     *)
(* rounded value of the weighted sum in which only cost is inverted; for   *)
(* the metrics 100, cost 0, and weights that sum to 1.0, it is 100.        *)
C8_McdaFormula ==
    (McdaOk /\ DOMAIN mcdaArgs.metrics = Criteria
            /\ DOMAIN mcdaArgs.weights = Criteria)
    => /\ IsRounding(mcdaResult.score,
                     ExpectedSum(mcdaArgs.metrics, mcdaArgs.weights))
       /\ (mcdaArgs.metrics = PerfectMetrics
             /\ SumOfWeights(mcdaArgs.weights) = R(1))
          => mcdaResult.score = 100

C8_Witness ==
    /\ McdaOk
    /\ mcdaArgs.metrics = PerfectMetrics
    /\ mcdaArgs.weights = EcoDesignWeights
    /\ mcdaResult.score = 100

(* A weighted sum with a fractional part, and a cost that is not 0. *)
C8_WitnessRounded ==
    /\ McdaOk
    /\ mcdaArgs.weights = EcoDesignWeights
    /\ mcdaArgs.metrics["cost"] = MidMetric
    /\ ~IsWhole(ExpectedSum(mcdaArgs.metrics, mcdaArgs.weights))

(* The latest call repeats the call before it with weights[k] doubled. *)
Doubled(k) ==
    /\ McdaOk /\ McdaPrevOk
    /\ mcdaArgs.metrics = mcdaPrev.args.metrics
    /\ mcdaArgs.weights =
         [mcdaPrev.args.weights EXCEPT ![k] = RMul(R(2), mcdaPrev.args.weights[k])]

(* normalized[k] * weights[k] of the call before. *)
WeightDelta(k) ==
    RMul(R(ExpectedNormalized(mcdaPrev.args.metrics, k)), mcdaPrev.args.weights[k])

(* C9 as stated: doubling weights[k] changes the returned score by exactly *)
(* normalized[k] * weights[k].                                             *)
C9_LinearExactly ==
    \A k \in Criteria :
        Doubled(k) => R(mcdaResult.score - mcdaPrev.result.score) = WeightDelta(k)

(* C9 as amended: doubling weights[k] changes the returned score by        *)
(* normalized[k] * weights[k] to within 1, the score being rounded.        *)
C9_LinearUpToRounding ==
    \A k \in Criteria :
        Doubled(k) =>
            LET diff == RSub(R(mcdaResult.score - mcdaPrev.result.score), WeightDelta(k))
            IN  RLeq(R(-1), diff) /\ RLeq(diff, R(1))

(* Doubling the weight 0.30 of a compliance of 55: the weighted sum grows   *)
(* by 16.5, the score by an integer.                                       *)
C9_Witness ==
    /\ Doubled("compliance")
    /\ mcdaPrev.args.weights = EcoDesignWeights
    /\ mcdaArgs.metrics["compliance"] = MidMetric
    /\ ~IsWhole(WeightDelta("compliance"))
    /\ R(mcdaResult.score - mcdaPrev.result.score) # WeightDelta("compliance")

McdaContract ==
    /\ DOMAIN mcdaArgs.weights = Criteria
    /\ \A k \in Criteria : mcdaArgs.metrics[k] \in 0..100
    /\ \A k \in Criteria : RLeq(R(0), mcdaArgs.weights[k])
    /\ SumOfWeights(mcdaArgs.weights) = R(1)

(* C10: with the five metrics in 0..100 and five non-negative weights that *)
(* sum to 1.0 the score lies in 0..100.                                    *)
C10_ScoreInRange ==
    (McdaOk /\ McdaContract) => mcdaResult.score \in 0..100

C10_Witness ==
    /\ McdaOk /\ McdaContract
    /\ mcdaArgs.weights = OneHot("cost")
    /\ mcdaArgs.metrics["cost"] = 100
    /\ mcdaArgs.metrics["compliance"] = 100
    /\ mcdaResult.score = 0

(* C11: a call with a weights bundle that lacks one of the five criteria   *)
(* fails with an error; it never returns a score computed from the         *)
(* remaining criteria.                                                     *)
C11_MissingWeightFails ==
    (mcdaResult # NoCall
        /\ DOMAIN mcdaArgs.weights # Criteria
        /\ DOMAIN mcdaArgs.weights \subseteq Criteria)
    => mcdaResult.status # "ok"

(* C12: simulate fails with an error and returns no result whenever        *)
(* recycled_pct is negative, or lead_time_days is negative, or             *)
(* base_cost_per_unit is zero or negative.                                 *)
C12_InvalidInputFails ==
    (simResult # NoCall
        /\ (simArgs.recycled_pct < 0 \/ simArgs.lead_time_days < 0
              \/ simArgs.base_cost_per_unit <= 0))
    => simResult.status # "ok"

-----------------------------------------------------------------------------
(* Properties of days_to_deadline on strings that are no deadline.         *)

(* The string is a date of the calendar written YYYY-MM-DD: ten            *)
(* characters, four, two and two digits.                                   *)
IsIsoDate(s) ==
    /\ Len(s) = 10
    /\ s[5] = "-" /\ s[8] = "-"
    /\ \A i \in {1, 2, 3, 4, 6, 7, 9, 10} : s[i] \in DigitSet
    /\ LET y == Num(SubSeq(s, 1, 4))
           m == Num(SubSeq(s, 6, 7))
           d == Num(SubSeq(s, 9, 10))
       IN  y >= 1 /\ m \in 1..12 /\ d \in 1..DaysInMonth(y, m)

(* The string is a date of the calendar written as a four-digit year, a    *)
(* month of one or two digits and a day of one or two digits, or of a      *)
(* space and a digit, with "-" between them.                               *)
IsLooseDate(s) ==
    \E a \in {1, 2}, b \in {1, 2} :
        /\ Len(s) = 6 + a + b
        /\ s[5] = "-" /\ s[6 + a] = "-"
        /\ IsDigits(SubSeq(s, 1, 4)) /\ IsDigits(SubSeq(s, 6, 5 + a))
        /\ LET day == SubSeq(s, 7 + a, 6 + a + b)
               dd == IF b = 2 /\ day[1] = " " THEN SubSeq(day, 2, 2) ELSE day
               y == Num(SubSeq(s, 1, 4))
               m == Num(SubSeq(s, 6, 5 + a))
           IN  /\ IsDigits(dd)
               /\ y >= 1 /\ m \in 1..12 /\ Num(dd) \in 1..DaysInMonth(y, m)

(* C13 as stated: a string that is not a valid calendar date in the        *)
(* YYYY-MM-DD form makes the call fail; no day count is returned.          *)
C13_NotIsoDateFails ==
    (deadlineResult # NoCall /\ ~IsIsoDate(deadlineArg))
    => deadlineResult.status # "ok"

(* C13 as amended: a string that is no calendar date written as year,      *)
(* month and day with "-" between them (the month and the day of one or    *)
(* two digits) makes the call fail with ValueError; no day count, 0 or     *)
(* other, is returned.  A date written without the leading zeros is        *)
(* accepted, and gets its day count.                                       *)
C13_MalformedFails ==
    /\ (deadlineResult # NoCall /\ ~IsLooseDate(deadlineArg))
       => deadlineResult.status = "ValueError"
    /\ (deadlineResult # NoCall /\ IsLooseDate(deadlineArg))
       => deadlineResult.status = "ok"

(* February 30th. *)
C13_Witness ==
    /\ deadlineResult.status = "ValueError"
    /\ deadlineArg = <<"2", "0", "2", "6", "-", "0", "2", "-", "3", "0">>

-----------------------------------------------------------------------------
(* Properties of render_ecodesign.                                         *)

EcoRendered == mcdaResult.status # "none"

InPercent(x) == RLeq(R(0), x) /\ RLeq(x, R(100))

(* C15: for every material pair and traceability choice, every integer     *)
(* recycled_pct in 0..100 and integer lead_time_days >= 0, each of the     *)
(* five metrics of option B (compliance; cost = min(100, 50 +              *)
(* costDeltaPct); availability = 100 - availabilityRisk; recyclability =   *)
(* min(100, 60 + (recycled_pct - 20) * 2); traceability 85 or 60) lies in  *)
(* 0..100, and so does scoreB; scoreA, of the fixed baseline, is the same  *)
(* (63) whatever the inputs.                                               *)
C15_OptionBInRange ==
    /\ (EcoRendered /\ simArgs.recycled_pct \in 0..100 /\ simArgs.lead_time_days >= 0)
       => /\ mcdaArgs.metrics["compliance"] = R(simResult.complianceScore)
          /\ mcdaArgs.metrics["cost"] = R(IntMin(100, 50 + simResult.costDeltaPct))
          /\ RAdd(mcdaArgs.metrics["availability"], simResult.availabilityRisk) = R(100)
          /\ mcdaArgs.metrics["recyclability"]
                = R(IntMin(100, 20 + 2 * simArgs.recycled_pct))
          /\ mcdaArgs.metrics["traceability"]
                = R(IF simArgs.traceability THEN 85 ELSE 60)
          /\ \A k \in Criteria : InPercent(mcdaArgs.metrics[k])
          /\ mcdaResult.status = "ok"
          /\ mcdaResult.score \in 0..100
    /\ EcoRendered
       => /\ mcdaPrev.args.metrics = optionA
          /\ mcdaPrev.result = [status |-> "ok", score |-> 63]

(* The page with recycled_pct 100 and a long lead time: recyclability at   *)
(* its cap, availability at its floor.                                     *)
C15_Witness ==
    /\ EcoRendered
    /\ simArgs.recycled_pct = 100 /\ simArgs.lead_time_days = 200
    /\ mcdaArgs.metrics["recyclability"] = R(100)
    /\ mcdaArgs.metrics["availability"] = R(5)
    /\ mcdaResult.status = "ok"

(* The page as it first shows. *)
C15_WitnessDefaults ==
    /\ EcoRendered
    /\ simArgs.material_from = "PVC" /\ simArgs.material_to = "PET"
    /\ simArgs.recycled_pct = DefaultRecycledPct
    /\ simArgs.lead_time_days = DefaultLeadTime
    /\ simArgs.traceability
    /\ mcdaResult.status = "ok"

(* Outside the percentages the recyclability of option B leaves 0..100. *)
C15_InRangeWhateverInputs ==
    EcoRendered => \A k \in Criteria : InPercent(mcdaArgs.metrics[k])

====
